---- MODULE Spec2Model ----
(***************************************************************************)
(* Model of company_search_agent/tools/target_search_tool.py: one          *)
(* invocation of target_search, its query tasks (search_query), the        *)
(* admission semaphore, the provider threads started by asyncio.to_thread  *)
(* under asyncio.wait_for, and the aggregation that follows the gather.    *)
(***************************************************************************)
EXTENDS Integers, Sequences, FiniteSets, TLC

\* ---------------------------------------------------------------- bounds
\* Longest input_data.queries the model enumerates.
MaxInput == 4

\* Most hits in a raw response whose formatting is checked on its own.
MaxHits == 2

\* ------------------------------------------------------ program constants
MaxQueries == 3
SemaphoreInit == 5
MaxKept == 8
CreateLimit == 3
MaxCreates == 2
ReminderAfter == 15
MaxUses == 2

\* TOOL_NAME_MAP's friendly names.
CQ == "Create Search Queries"
TS == "Search based on queries"
ToolNames == {CQ, TS}

\* log_intervals, at its default.
LogIntervals == {10, 25, 40, 60}
TruncLen == 200

\* The query strings the caller may pass (duplicates allowed).
QueryStrings == {"a", "b"}

Positions == 1..MaxInput

Inputs == UNION {[1..n -> QueryStrings] : n \in 0..MaxInput}

\* ------------------------------------------------------------- strings
\* A string is the sequence of its characters.
Chars(n) == [j \in 1..n |-> IF j % 2 = 1 THEN "x" ELSE "y"]

Marker == <<".", ".", ".">>

\* The truncation as it would be with `>=` for `>`.
TruncateFromLimit(content) ==
    IF Len(content) >= TruncLen
    THEN SubSeq(content, 1, TruncLen) \o Marker
    ELSE content

\* content[:200] + "..." if len(content) > 200 else content
Truncate(content) ==
    IF Len(content) > TruncLen
    THEN SubSeq(content, 1, TruncLen) \o Marker
    ELSE content

\* --------------------------------------------------- provider responses
ResultKeys == {"title", "url", "content", "score"}

\* One raw hit of the provider: `keys` are the keys the dict holds and
\* `nulls` the keys whose value is None.  `src` is a history tag (query
\* position, rank) that names the provider call the hit came from.
RawResult(i, k, score, clen, keys, nulls) ==
    [title |-> "t", url |-> "u", content |-> Chars(clen), score |-> score,
     keys |-> keys, nulls |-> nulls, src |-> <<i, k>>]

\* A raw response: a dict with or without the "results" key, or no dict.
Response(isDict, hasResults, results) ==
    [isDict |-> isDict, hasResults |-> hasResults, results |-> results]

Hits(i, scores) ==
    [k \in 1..Len(scores) |-> RawResult(i, k, scores[k], 3, ResultKeys, {})]

\* What tavily_client.search may answer for the query at position i.
ProviderResponses(i) ==
    { Response(TRUE, TRUE, <<>>),
      Response(TRUE, FALSE, <<>>),
      Response(FALSE, FALSE, <<>>),
      Response(TRUE, TRUE, Hits(i, <<1, 2, 1, 0, 2>>)),
      Response(TRUE, TRUE,
               <<RawResult(i, 1, 1, TruncLen + 1, ResultKeys, {}),
                 RawResult(i, 2, 2, TruncLen, ResultKeys \ {"score"}, {}),
                 RawResult(i, 3, 0, 0, {"score"}, {})>>),
      Response(TRUE, TRUE,
               <<RawResult(i, 1, 2, 3, ResultKeys, {}),
                 RawResult(i, 2, 1, 3, ResultKeys, {"content"})>>) }

\* The raw responses whose formatting is checked on its own: contents
\* around the truncation limit, hits with keys missing or None.
ContentLengths ==
    {0, TruncLen - 1, TruncLen, TruncLen + 1, TruncLen + Len(Marker) + 1}

HitShapes ==
    { [keys |-> ResultKeys, nulls |-> {}],
      [keys |-> ResultKeys \ {"content"}, nulls |-> {}],
      [keys |-> ResultKeys \ {"score"}, nulls |-> {}],
      [keys |-> ResultKeys \ {"title", "url"}, nulls |-> {}],
      [keys |-> {}, nulls |-> {}],
      [keys |-> ResultKeys, nulls |-> {"content"}],
      [keys |-> ResultKeys, nulls |-> {"score"}] }

\* The response with one hit per entry of f, a sequence of pairs of a
\* content length and a hit shape.
FormatInput(f) ==
    Response(TRUE, TRUE,
             [k \in 1..Len(f) |->
                 RawResult(1, k, k, f[k][1], f[k][2].keys, f[k][2].nulls)])

\* No response, and the formatting not yet done.
NoResponse == Response(FALSE, FALSE, <<>>)

Pending == [state |-> "pending", results |-> <<>>]

\* ----------------------------------------------------------- formatting
\* result.get(key, default)
Get(result, key, default) ==
    IF key \in result.keys THEN result[key] ELSE default

\* TargetSearchResult(...) of one raw hit.
FormatResult(result) ==
    [title |-> Get(result, "title", ""),
     url |-> Get(result, "url", ""),
     content |-> Truncate(Get(result, "content", <<>>)),
     score |-> Get(result, "score", 0),
     src |-> result.src]

\* The formatting as it would be with result["key"] for result.get: a
\* missing key raises too.
FormatRaisesOnMissingKey(response) ==
    \/ ~response.isDict
    \/ /\ response.hasResults
       /\ \E k \in 1..Len(response.results) :
             \/ response.results[k].nulls \cap response.results[k].keys # {}
             \/ response.results[k].keys # ResultKeys

\* len(None) and the model validation raise for a None value.
FormatRaises(response) ==
    \/ ~response.isDict
    \/ /\ response.hasResults
       /\ \E k \in 1..Len(response.results) :
             response.results[k].nulls \cap response.results[k].keys # {}

\* search_result.get("results", [])
RawResultsOf(response) ==
    IF response.hasResults THEN response.results ELSE <<>>

FormatResponse(response) ==
    [k \in 1..Len(RawResultsOf(response)) |->
        FormatResult(RawResultsOf(response)[k])]

\* ---------------------------------------------------------- aggregation
RECURSIVE Flatten(_)
Flatten(lists) ==
    IF lists = <<>> THEN <<>>
    ELSE Head(lists) \o Flatten(Tail(lists))

\* The place as it would be after an ascending sort that is then reversed:
\* elements of equal score end in reverse order.
SortedPlaceTiesReversed(results, k) ==
    Cardinality({j \in 1..Len(results) :
                    \/ results[j].score > results[k].score
                    \/ results[j].score = results[k].score /\ j >= k})

\* The place of results[k] after list.sort(key=score, reverse=True): behind
\* every element of higher score and, the sort being stable, behind the
\* elements of equal score that precede it.
SortedPlace(results, k) ==
    Cardinality({j \in 1..Len(results) :
                    \/ results[j].score > results[k].score
                    \/ results[j].score = results[k].score /\ j <= k})

\* list.sort(key=score, reverse=True)
SortDesc(results) ==
    LET place == [k \in 1..Len(results) |-> SortedPlace(results, k)]
    IN  [p \in 1..Len(results) |->
            results[CHOOSE k \in 1..Len(results) : place[k] = p]]

\* The cap as it would be with all_results[-8:].
CapKeepsLast(results) ==
    IF Len(results) > MaxKept
    THEN SubSeq(results, Len(results) - MaxKept + 1, Len(results))
    ELSE results

\* The cap as it would be one entry too long.
CapOneMore(results) ==
    IF Len(results) > MaxKept + 1 THEN SubSeq(results, 1, MaxKept + 1)
    ELSE results

\* all_results[:8] if len(all_results) > 8 else all_results
Cap(results) ==
    IF Len(results) > MaxKept THEN SubSeq(results, 1, MaxKept) ELSE results

\* ------------------------------------------------------------ dispatch
\* The limit as it would be one short.
LimitQueriesOneShort(qs) ==
    IF Len(qs) > MaxQueries - 1 THEN SubSeq(qs, 1, MaxQueries - 1) ELSE qs

\* No limit at all.
LimitQueriesNone(qs) == qs

\* input_data.queries[:3] if len(input_data.queries) > 3
LimitQueries(qs) ==
    IF Len(qs) > MaxQueries THEN SubSeq(qs, 1, MaxQueries) ELSE qs

\* The except clauses as they would be if there were none.
CatchesNothing(exc) == FALSE

\* The except clauses as they would be with the timeout raised again.
CatchesReraisesTimeout(exc) == exc = "Exception"

\* The except clauses as they would be with the timeout clause alone.
CatchesOnlyTimeout(exc) == exc = "TimeoutError"

\* The except clauses of search_query: which exceptions end as [].
Catches(exc) == exc \in {"TimeoutError", "Exception"}

\* A gather that yields the values in the order the tasks ended.
GatherAsCompleted(values, done) == [n \in 1..Len(done) |-> values[done[n]]]

\* asyncio.gather(*tasks): the tasks' values in task order, whatever the
\* order `done` in which the tasks ended.
Gather(values, done) == [i \in 1..Len(done) |-> values[i]]

\* results_by_query[key] = value on an insertion-ordered dict.
DictSet(dict, key, value) ==
    IF \E n \in 1..Len(dict) : dict[n].key = key
    THEN [n \in 1..Len(dict) |->
             IF dict[n].key = key THEN [key |-> key, value |-> value]
             ELSE dict[n]]
    ELSE Append(dict, [key |-> key, value |-> value])

\* The terminal notification as it would be with no print in the timeout
\* clause.
TerminalNotesSilentTimeout(how) ==
    IF how = "completed" THEN <<"completed">>
    ELSE IF how = "timed_out" THEN <<>>
    ELSE <<"failed">>

\* The notification search_query prints when its call ended as `how`.
TerminalNotes(how) ==
    IF how = "completed" THEN <<"completed">>
    ELSE IF how = "timed_out" THEN <<"timed_out">>
    ELSE <<"failed">>

\* The results-by-query report: for every item of the dict, in insertion
\* order, the query and the number of results found for it.
ByQueryReport(dict) ==
    [n \in 1..Len(dict) |->
        [query |-> dict[n].key, found |-> Len(dict[n].value)]]

\* The summary as it would be with the count of results taken after the cap.
SummaryCountsAfterCap(qs, found, kept) ==
    [queries_processed |-> Len(qs),
     total_results_found |-> Len(kept),
     results_kept |-> Len(kept)]

\* The search summary: len(queries), orig_results_count, len(all_results).
Summary(qs, found, kept) ==
    [queries_processed |-> Len(qs),
     total_results_found |-> Len(found),
     results_kept |-> Len(kept)]

VARIABLES
    input,             \* input_data.queries
    pc,                \* target_search: "start", "gather", "done", "raised"
    queries,           \* the dispatched queries
    semaphore,         \* the semaphore's value
    tpc,               \* search_query task i: "none", "created", "waiting",
                       \*   "acquired", "calling", "done", "raised"
    outcome,           \* what ended task i's call: "none", "completed",
                       \*   "timed_out", "provider_error", "format_error"
    holds,             \* task i is inside `async with semaphore`
    inflight,          \* positions of this invocation whose provider thread
                       \*   is running
    calls,             \* the queries task i passed to the provider, in order
    releases,          \* semaphore releases per task
    slot,              \* the value task i returned
    settled,           \* the tasks in the order they ended
    results_by_query,  \* the dict, as its items in insertion order
    results_per_query, \* what the gather returned
    flattened,         \* all_results after the flatten loop
    all_results,       \* the list target_search returned
    notes,             \* the notifications printed for query i, in order
    summary,           \* the search summaries printed
    report,            \* the results-by-query report printed
    earlier,           \* an earlier invocation has returned
    search_result,     \* a raw response formatted on its own
    query_results,     \* what its formatting gave: the list, or "raised"
    generated,         \* the queries the agent passes to create_query
    created,           \* what create_query returned, call after call
    rpc,               \* main and run_with_progress: "idle", "streaming",
                       \*   "returned", "failed", "reported"
    tool_call_history, \* the global list
    last_tool_seen,    \* the global: a tool's friendly name, or "None"
    tool_usage_count,  \* the global dict
    create_query_seen, \* local of run_with_progress
    search_seen,       \* local of run_with_progress
    first_tool_complete, \* local of run_with_progress
    log_done,          \* local of run_with_progress, per log interval
    search_reminder_shown, \* local of run_with_progress
    time_tracker_task, \* "none", "running", "cancelled"
    elapsed,           \* the elapsed time the tracker last read
    logged,            \* how often each interval's message was printed
    reminded,          \* how often the search reminder was printed
    verdict,           \* main's tool usage report: "none", "perfect",
                       \*   "not_optimal"
    rerun              \* run_with_progress had been called before this run

vars == <<input, pc, queries, semaphore, tpc, outcome, holds, inflight, calls,
          releases, slot, settled, results_by_query, results_per_query,
          flattened, all_results, notes, summary, report, earlier,
          search_result, query_results, generated, created, rpc,
          tool_call_history, last_tool_seen, tool_usage_count,
          create_query_seen, search_seen, first_tool_complete, log_done,
          search_reminder_shown, time_tracker_task, elapsed, logged,
          reminded, verdict, rerun>>

searchvars == <<input, pc, queries, semaphore, tpc, outcome, holds, inflight,
                calls, releases, slot, settled, results_by_query,
                results_per_query, flattened, all_results, notes, summary,
                report, earlier>>

fmtvars == <<search_result, query_results>>

toolvars == <<generated, created>>

runvars == <<rpc, tool_call_history, last_tool_seen, tool_usage_count,
             create_query_seen, search_seen, first_tool_complete, log_done,
             search_reminder_shown, time_tracker_task, elapsed, logged,
             reminded, verdict, rerun>>

\* run.py imported, main not started: the globals as the module sets them,
\* no run_with_progress frame.
RunIdle ==
    /\ rpc = "idle"
    /\ tool_call_history = <<>>
    /\ last_tool_seen = "None"
    /\ tool_usage_count = [t \in ToolNames |-> 0]
    /\ create_query_seen = FALSE
    /\ search_seen = FALSE
    /\ first_tool_complete = FALSE
    /\ log_done = [t \in LogIntervals |-> FALSE]
    /\ search_reminder_shown = FALSE
    /\ time_tracker_task = "none"
    /\ elapsed = 0
    /\ logged = [t \in LogIntervals |-> 0]
    /\ reminded = 0
    /\ verdict = "none"
    /\ rerun = FALSE

\* Before target_search runs.
Idle ==
    /\ pc = "start"
    /\ queries = <<>>
    /\ semaphore = 0
    /\ tpc = [i \in Positions |-> "none"]
    /\ outcome = [i \in Positions |-> "none"]
    /\ holds = [i \in Positions |-> FALSE]
    /\ inflight = {}
    /\ calls = [i \in Positions |-> <<>>]
    /\ releases = [i \in Positions |-> 0]
    /\ slot = [i \in Positions |-> <<>>]
    /\ settled = <<>>
    /\ results_by_query = <<>>
    /\ results_per_query = <<>>
    /\ flattened = <<>>
    /\ all_results = <<>>
    /\ notes = [i \in Positions |-> <<>>]
    /\ summary = <<>>
    /\ report = <<>>
    /\ earlier = FALSE

\* create_query has not been called.
NotCreated ==
    /\ generated = <<>>
    /\ created = <<>>

Init ==
    /\ input \in Inputs
    /\ Idle
    /\ search_result = NoResponse
    /\ query_results = Pending
    /\ NotCreated
    /\ RunIdle

\* The entry as it would be with results_by_query a module-level dict.
EnterKeepsDict(qs) ==
    /\ input' = qs
    /\ pc' = "gather"
    /\ all_results' = <<>>
    /\ queries' = LimitQueries(qs)
    /\ semaphore' = SemaphoreInit
    /\ UNCHANGED results_by_query
    /\ tpc' = [i \in Positions |->
                 IF i <= Len(LimitQueries(qs)) THEN "created" ELSE "none"]
    /\ outcome' = [i \in Positions |-> "none"]
    /\ holds' = [i \in Positions |-> FALSE]
    /\ inflight' = {}
    /\ calls' = [i \in Positions |-> <<>>]
    /\ releases' = [i \in Positions |-> 0]
    /\ slot' = [i \in Positions |-> <<>>]
    /\ settled' = <<>>
    /\ results_per_query' = <<>>
    /\ flattened' = <<>>
    /\ notes' = [i \in Positions |-> <<>>]
    /\ summary' = <<>>
    /\ report' = <<>>
    /\ UNCHANGED <<fmtvars, toolvars, runvars>>

\* target_search called with the queries qs, up to the gather: a new
\* all_results, the limit, a new semaphore, a new dict, one new task per
\* query.  Nothing of an earlier invocation is in the new frame; the threads
\* an earlier invocation left running belong to none of its calls.
Enter(qs) ==
    /\ input' = qs
    /\ pc' = "gather"
    /\ all_results' = <<>>
    /\ queries' = LimitQueries(qs)
    /\ semaphore' = SemaphoreInit
    /\ results_by_query' = <<>>
    /\ tpc' = [i \in Positions |->
                 IF i <= Len(LimitQueries(qs)) THEN "created" ELSE "none"]
    /\ outcome' = [i \in Positions |-> "none"]
    /\ holds' = [i \in Positions |-> FALSE]
    /\ inflight' = {}
    /\ calls' = [i \in Positions |-> <<>>]
    /\ releases' = [i \in Positions |-> 0]
    /\ slot' = [i \in Positions |-> <<>>]
    /\ settled' = <<>>
    /\ results_per_query' = <<>>
    /\ flattened' = <<>>
    /\ notes' = [i \in Positions |-> <<>>]
    /\ summary' = <<>>
    /\ report' = <<>>
    /\ UNCHANGED <<fmtvars, toolvars, runvars>>

\* The first invocation of target_search.
Dispatch ==
    /\ pc = "start"
    /\ Enter(input)
    /\ UNCHANGED earlier

\* What a caller that called with the queries qs calls with next: the same
\* queries again, or as many queries of which none is the same.
Recalls(qs) ==
    {qs, [k \in 1..Len(qs) |-> IF qs[k] = "a" THEN "b" ELSE "a"]}

\* target_search has returned and is called again.
Reinvoke ==
    /\ pc = "done"
    /\ earlier' = TRUE
    /\ \E qs \in Recalls(input) : Enter(qs)

\* Acquire as it would be if the call were made outside `async with`.
AcquireWithoutPermit(i) ==
    /\ pc = "gather"
    /\ tpc[i] = "created"
    /\ tpc' = [tpc EXCEPT ![i] = "acquired"]
    /\ notes' = [notes EXCEPT ![i] = Append(@, "started")]
    /\ UNCHANGED <<fmtvars, toolvars, runvars>>
    /\ UNCHANGED <<input, pc, queries, semaphore, outcome, holds, inflight,
                   calls, releases, slot, settled, results_by_query,
                   results_per_query, flattened, all_results, summary, report,
                   earlier>>

\* The task's first run prints the start notification and enters `async
\* with semaphore`: __aenter__ takes a permit when one is free, and waits
\* for one otherwise.
Acquire(i) ==
    /\ pc = "gather"
    /\ \/ /\ tpc[i] = "created"
          /\ notes' = [notes EXCEPT ![i] = Append(@, "started")]
          /\ IF semaphore > 0
             THEN /\ semaphore' = semaphore - 1
                  /\ holds' = [holds EXCEPT ![i] = TRUE]
                  /\ tpc' = [tpc EXCEPT ![i] = "acquired"]
             ELSE /\ tpc' = [tpc EXCEPT ![i] = "waiting"]
                  /\ UNCHANGED <<semaphore, holds>>
       \/ /\ tpc[i] = "waiting"
          /\ semaphore > 0
          /\ semaphore' = semaphore - 1
          /\ holds' = [holds EXCEPT ![i] = TRUE]
          /\ tpc' = [tpc EXCEPT ![i] = "acquired"]
          /\ UNCHANGED notes
    /\ UNCHANGED <<fmtvars, toolvars, runvars>>
    /\ UNCHANGED <<input, pc, queries, outcome, inflight, calls, releases,
                   slot, settled, results_by_query, results_per_query,
                   flattened, all_results, summary, report, earlier>>

\* wait_for(to_thread(tavily_client.search, query, ...), timeout=10): the
\* provider thread starts.
StartCall(i) ==
    /\ pc = "gather"
    /\ tpc[i] = "acquired"
    /\ tpc' = [tpc EXCEPT ![i] = "calling"]
    /\ inflight' = inflight \cup {i}
    /\ calls' = [calls EXCEPT ![i] = Append(@, queries[i])]
    /\ UNCHANGED <<fmtvars, toolvars, runvars>>
    /\ UNCHANGED <<input, pc, queries, semaphore, outcome, holds, releases,
                   slot, settled, results_by_query, results_per_query,
                   flattened, all_results, notes, summary, report, earlier>>

\* The end of the task as it would be with a release on the success path
\* only (acquire and release by hand, no finally).
SettleLeaks(i, exc, results, how) ==
    /\ outcome' = [outcome EXCEPT ![i] = how]
    /\ settled' = Append(settled, i)
    /\ tpc' = [tpc EXCEPT ![i] = "done"]
    /\ slot' = [slot EXCEPT ![i] = results]
    /\ results_by_query' = DictSet(results_by_query, queries[i], results)
    /\ notes' = [notes EXCEPT ![i] = @ \o TerminalNotes(how)]
    /\ IF exc = "none"
       THEN /\ semaphore' = semaphore + 1
            /\ releases' = [releases EXCEPT ![i] = @ + 1]
            /\ holds' = [holds EXCEPT ![i] = FALSE]
       ELSE UNCHANGED <<semaphore, releases, holds>>

\* The end of the task as it would be with the formatting after the try
\* statement: an error of the formatting is not caught.
SettleFormatsOutsideTry(i, exc, results, how) ==
    /\ semaphore' = semaphore + 1
    /\ releases' = [releases EXCEPT ![i] = @ + 1]
    /\ holds' = [holds EXCEPT ![i] = FALSE]
    /\ outcome' = [outcome EXCEPT ![i] = how]
    /\ settled' = Append(settled, i)
    /\ IF exc = "none" \/ (Catches(exc) /\ how # "format_error")
       THEN /\ tpc' = [tpc EXCEPT ![i] = "done"]
            /\ slot' = [slot EXCEPT ![i] = results]
            /\ results_by_query' = DictSet(results_by_query, queries[i], results)
            /\ notes' = [notes EXCEPT ![i] = @ \o TerminalNotes(how)]
       ELSE /\ tpc' = [tpc EXCEPT ![i] = "raised"]
            /\ UNCHANGED <<slot, results_by_query, notes>>

\* The task leaves `async with` (release) and ends: with `results` printed,
\* stored and returned, or, for an exception exc, through the except clause
\* that catches it (which prints, stores [] and returns []).
Settle(i, exc, results, how) ==
    /\ semaphore' = semaphore + 1
    /\ releases' = [releases EXCEPT ![i] = @ + 1]
    /\ holds' = [holds EXCEPT ![i] = FALSE]
    /\ outcome' = [outcome EXCEPT ![i] = how]
    /\ settled' = Append(settled, i)
    /\ IF exc = "none" \/ Catches(exc)
       THEN /\ tpc' = [tpc EXCEPT ![i] = "done"]
            /\ slot' = [slot EXCEPT ![i] = results]
            /\ results_by_query' = DictSet(results_by_query, queries[i], results)
            /\ notes' = [notes EXCEPT ![i] = @ \o TerminalNotes(how)]
       ELSE /\ tpc' = [tpc EXCEPT ![i] = "raised"]
            /\ UNCHANGED <<slot, results_by_query, notes>>

\* The provider thread returns `response` within the timeout; the task
\* formats it, which may raise.
ProviderReturns(i) ==
    /\ pc = "gather"
    /\ tpc[i] = "calling"
    /\ i \in inflight
    /\ inflight' = inflight \ {i}
    /\ \E response \in ProviderResponses(i) :
          IF FormatRaises(response)
          THEN Settle(i, "Exception", <<>>, "format_error")
          ELSE Settle(i, "none", FormatResponse(response), "completed")
    /\ UNCHANGED <<fmtvars, toolvars, runvars>>
    /\ UNCHANGED <<input, pc, queries, calls, results_per_query, flattened,
                   all_results, summary, report, earlier>>

\* The provider thread raises within the timeout.
ProviderRaises(i) ==
    /\ pc = "gather"
    /\ tpc[i] = "calling"
    /\ i \in inflight
    /\ inflight' = inflight \ {i}
    /\ Settle(i, "Exception", <<>>, "provider_error")
    /\ UNCHANGED <<fmtvars, toolvars, runvars>>
    /\ UNCHANGED <<input, pc, queries, calls, results_per_query, flattened,
                   all_results, summary, report, earlier>>

\* A wait_for without its timeout: the 10 seconds never end the wait.
TimeoutNever(i) ==
    /\ FALSE
    /\ UNCHANGED vars

\* The 10 seconds pass: wait_for cancels its wait and raises TimeoutError;
\* the thread cannot be cancelled and runs on.
Timeout(i) ==
    /\ pc = "gather"
    /\ tpc[i] = "calling"
    /\ i \in inflight
    /\ Settle(i, "TimeoutError", <<>>, "timed_out")
    /\ UNCHANGED <<fmtvars, toolvars, runvars>>
    /\ UNCHANGED <<input, pc, queries, inflight, calls, results_per_query,
                   flattened, all_results, summary, report, earlier>>

\* The late end of the thread as it would be if the thread itself stored
\* what it got.
LateDeliveryStores(i) ==
    /\ tpc[i] = "done"
    /\ outcome[i] = "timed_out"
    /\ i \in inflight
    /\ inflight' = inflight \ {i}
    /\ \E response \in ProviderResponses(i) :
          /\ ~FormatRaises(response)
          /\ slot' = [slot EXCEPT ![i] = FormatResponse(response)]
          /\ results_by_query' =
                DictSet(results_by_query, queries[i], FormatResponse(response))
    /\ UNCHANGED <<fmtvars, toolvars, runvars>>
    /\ UNCHANGED <<input, pc, queries, semaphore, tpc, outcome, holds, calls,
                   releases, settled, results_per_query, flattened,
                   all_results, notes, summary, report, earlier>>

\* The thread of a timed-out call ends (returning or raising): its future
\* was cancelled, nobody reads the result.
LateDelivery(i) ==
    /\ tpc[i] = "done"
    /\ outcome[i] = "timed_out"
    /\ i \in inflight
    /\ inflight' = inflight \ {i}
    /\ UNCHANGED <<fmtvars, toolvars, runvars>>
    /\ UNCHANGED <<input, pc, queries, semaphore, tpc, outcome, holds, calls,
                   releases, slot, settled, results_by_query,
                   results_per_query, flattened, all_results, notes, summary, report,
                   earlier>>

\* The gather returns the tasks' values in task order once all are done, or
\* raises the exception of a task that raised; then flatten, sort, cap,
\* print the summary and return.
Aggregate ==
    /\ pc = "gather"
    /\ \/ /\ \E i \in 1..Len(queries) : tpc[i] = "raised"
          /\ pc' = "raised"
          /\ UNCHANGED <<results_per_query, flattened, all_results, summary,
                         report>>
       \/ /\ \A i \in 1..Len(queries) : tpc[i] = "done"
          /\ pc' = "done"
          /\ \E gathered \in {Gather(slot, settled)} :
                \E flat \in {Flatten(gathered)} :
                   \E kept \in {Cap(SortDesc(flat))} :
                      /\ results_per_query' = gathered
                      /\ flattened' = flat
                      /\ all_results' = kept
                      /\ summary' = Append(summary, Summary(queries, flat, kept))
                      /\ report' = ByQueryReport(results_by_query)
    /\ UNCHANGED <<fmtvars, toolvars, runvars>>
    /\ UNCHANGED <<input, queries, semaphore, tpc, outcome, holds, inflight,
                   calls, releases, slot, settled, results_by_query, notes,
                   earlier>>

\* The steps of one invocation.
InvocationNext ==
    \/ Dispatch
    \/ \E i \in Positions : Acquire(i)
    \/ \E i \in Positions : StartCall(i)
    \/ \E i \in Positions : ProviderReturns(i)
    \/ \E i \in Positions : ProviderRaises(i)
    \/ \E i \in Positions : Timeout(i)
    \/ \E i \in Positions : LateDelivery(i)
    \/ Aggregate

Next ==
    \/ Dispatch
    \/ \E i \in Positions : Acquire(i)
    \/ \E i \in Positions : StartCall(i)
    \/ \E i \in Positions : ProviderReturns(i)
    \/ \E i \in Positions : ProviderRaises(i)
    \/ \E i \in Positions : Timeout(i)
    \/ \E i \in Positions : LateDelivery(i)
    \/ Aggregate
    \/ Reinvoke

Spec == Init /\ [][Next]_vars

\* A step of the event loop: a ready task runs or a timer fires.  The end
\* of a provider thread is no such step: a thread may never end.
LoopStep ==
    \/ Dispatch
    \/ \E i \in Positions : Acquire(i)
    \/ \E i \in Positions : StartCall(i)
    \/ \E i \in Positions : Timeout(i)
    \/ Aggregate

\* The event loop does not stop while it has a step to take.
Fairness == WF_vars(LoopStep)

\* One invocation under the event loop's scheduling: whether the caller
\* calls again is up to the caller.
FairSpec == Init /\ [][InvocationNext]_vars /\ Fairness

\* The formatting of search_query on its own, for any raw response.
FormatStep ==
    /\ query_results.state = "pending"
    /\ query_results' =
          IF FormatRaises(search_result)
          THEN [state |-> "raised", results |-> <<>>]
          ELSE [state |-> "formatted",
                results |-> FormatResponse(search_result)]
    /\ UNCHANGED <<input, pc, queries, semaphore, tpc, outcome, holds,
                   inflight, calls, releases, slot, settled, results_by_query,
                   results_per_query, flattened, all_results, notes, summary, report,
                   earlier, search_result>>
    /\ UNCHANGED <<toolvars, runvars>>

FormatInit ==
    /\ input = <<>>
    /\ Idle
    /\ \/ search_result \in {Response(FALSE, FALSE, <<>>),
                              Response(TRUE, FALSE, <<>>)}
       \/ \E n \in 0..MaxHits :
             \E f \in [1..n -> ContentLengths \X HitShapes] :
                search_result = FormatInput(f)
    /\ query_results = Pending
    /\ NotCreated
    /\ RunIdle

FormatNext == FormatStep

FormatSpec == FormatInit /\ [][FormatNext]_vars

\* ------------------------------------------------------- create_query
\* create_query as it would be keeping the last 3 queries.
CreateQueryKeepsLast(qs) ==
    IF Len(qs) > CreateLimit
    THEN SubSeq(qs, Len(qs) - CreateLimit + 1, Len(qs))
    ELSE qs

\* create_query: queries[:3] if len(queries) > 3, else queries.
CreateQuery(qs) ==
    IF Len(qs) > CreateLimit THEN SubSeq(qs, 1, CreateLimit) ELSE qs

\* The agent generates any queries; target_search is not running.
CreateInit ==
    /\ generated \in Inputs
    /\ created = <<>>
    /\ input = <<>>
    /\ Idle
    /\ search_result = NoResponse
    /\ query_results = Pending
    /\ RunIdle

\* create_query is called: with the generated queries the first time, with
\* its own last output after that.
CreateStep ==
    /\ pc = "start"
    /\ Len(created) < MaxCreates
    /\ created' = Append(created,
                         CreateQuery(IF created = <<>> THEN generated
                                     ELSE created[Len(created)]))
    /\ UNCHANGED <<input, pc, queries, semaphore, tpc, outcome, holds,
                   inflight, calls, releases, slot, settled, results_by_query,
                   results_per_query, flattened, all_results, notes, summary,
                   report, earlier, search_result, query_results, generated>>
    /\ UNCHANGED runvars

\* target_search is called with the last output of create_query.
PassOn ==
    /\ pc = "start"
    /\ created # <<>>
    /\ Enter(created[Len(created)])
    /\ UNCHANGED earlier

CreateNext ==
    \/ CreateStep
    \/ PassOn

CreateSpec == CreateInit /\ [][CreateNext]_vars

\* ------------------------------------------------------------- run.py
\* What the code reads of a stream event.  mentions: which tool names
\* str(event) contains.  hint: what Method 2 of detect_tool_from_event finds
\* in the item's tool_calls or output, "unknown" when it finds nothing or
\* raises.  output.text: falsy, or which of "queries" and "results"
\* str(output) contains; output.parses: the try block that handles the
\* output runs to its end.
Mentions == SUBSET {"create_query", "target_search"}

Hints == ToolNames \cup {"unknown"}

Outputs ==
    {[text |-> "falsy", parses |-> TRUE]}
       \cup [text : {"queries", "results", "both", "neither"},
             parses : BOOLEAN]

\* Events the loop skips: no type, a raw response event, another event type
\* or no item, an item that is neither a tool call nor a tool output.
SkippedEvents ==
    {"no_type", "raw_response_event", "other_event", "message_output_item"}

CallEvents == [mentions : Mentions, hint : Hints]

OutputEvents == [mentions : Mentions, hint : Hints, output : Outputs]

\* The elapsed times the tracker can tell apart: 0 and one more than each
\* time it compares with.
Readings == {0} \cup {t + 1 : t \in LogIntervals \cup {ReminderAfter}}

Range(seq) == {seq[n] : n \in 1..Len(seq)}

\* detect_tool_from_event: the name it returns and last_tool_seen after it.
DetectTool(event, last, history) ==
    IF "create_query" \in event.mentions THEN [name |-> CQ, last |-> CQ]
    ELSE IF "target_search" \in event.mentions THEN [name |-> TS, last |-> TS]
    ELSE IF event.hint # "unknown"
         THEN [name |-> event.hint, last |-> event.hint]
    ELSE IF /\ last = CQ
            /\ Len(history) > 0
            /\ history[Len(history)] = CQ
         THEN [name |-> TS, last |-> TS]
    ELSE [name |-> "unknown", last |-> last]

\* The history as it would be with every recognised tool call appended.
RememberEveryCall(history, name) ==
    IF name # "unknown" THEN Append(history, name) ELSE history

\* if tool_name != "unknown" and tool_name not in tool_call_history:
\*     tool_call_history.append(tool_name)
Remember(history, name) ==
    IF name # "unknown" /\ name \notin Range(history)
    THEN Append(history, name)
    ELSE history

\* main: tool_call_history == expected_usage.
UsageVerdict(history, count) ==
    IF history = <<CQ, TS>> THEN "perfect" ELSE "not_optimal"

\* run_with_progress is called, up to the try statement: the globals are
\* reset, the flags are new, the time tracker task is created.
RunStart ==
    /\ rpc \in {"idle", "returned", "failed", "reported"}
    /\ rpc' = "streaming"
    /\ tool_call_history' = <<>>
    /\ last_tool_seen' = "None"
    /\ tool_usage_count' = [t \in ToolNames |-> 0]
    /\ log_done' = [t \in LogIntervals |-> FALSE]
    /\ search_reminder_shown' = FALSE
    /\ time_tracker_task' = "running"
    /\ create_query_seen' = FALSE
    /\ search_seen' = FALSE
    /\ first_tool_complete' = FALSE
    /\ elapsed' = 0
    /\ logged' = [t \in LogIntervals |-> 0]
    /\ reminded' = 0
    /\ verdict' = "none"
    /\ rerun' = (rpc # "idle")
    /\ UNCHANGED <<searchvars, fmtvars, toolvars>>

\* One pass of time_tracker's loop, between two sleeps.
TrackerRuns ==
    /\ rpc = "streaming"
    /\ time_tracker_task = "running"
    /\ \E t \in Readings :
          /\ t >= elapsed
          /\ elapsed' = t
          /\ log_done' = [i \in LogIntervals |-> log_done[i] \/ t > i]
          /\ logged' = [i \in LogIntervals |->
                          IF t > i /\ ~log_done[i] THEN logged[i] + 1
                          ELSE logged[i]]
          /\ IF /\ t > ReminderAfter
                /\ ~search_reminder_shown
                /\ CQ \in Range(tool_call_history)
                /\ TS \notin Range(tool_call_history)
             THEN /\ reminded' = reminded + 1
                  /\ search_reminder_shown' = TRUE
             ELSE UNCHANGED <<reminded, search_reminder_shown>>
    /\ UNCHANGED <<rpc, tool_call_history, last_tool_seen, tool_usage_count,
                   create_query_seen, search_seen, first_tool_complete,
                   time_tracker_task, verdict, rerun>>
    /\ UNCHANGED <<searchvars, fmtvars, toolvars>>

\* An event the loop skips with `continue`.
SkipEvent ==
    /\ rpc = "streaming"
    /\ \E kind \in SkippedEvents : UNCHANGED runvars
    /\ UNCHANGED <<searchvars, fmtvars, toolvars>>

\* A tool_call_item event.
ToolCall ==
    /\ rpc = "streaming"
    /\ \E event \in CallEvents :
          \E det \in {DetectTool(event, last_tool_seen, tool_call_history)} :
             \E tool_name \in
                   {IF /\ first_tool_complete
                       /\ Len(tool_call_history) = 1
                       /\ tool_call_history[1] = CQ
                    THEN TS ELSE det.name} :
                /\ tool_name \in ToolNames =>
                      tool_usage_count[tool_name] < MaxUses
                /\ last_tool_seen' = det.last
                /\ tool_usage_count' =
                      IF tool_name \in ToolNames
                      THEN [tool_usage_count EXCEPT ![tool_name] = @ + 1]
                      ELSE tool_usage_count
                /\ create_query_seen' = (create_query_seen \/ tool_name = CQ)
                /\ search_seen' = (search_seen \/ tool_name = TS)
                /\ tool_call_history' = Remember(tool_call_history, tool_name)
    /\ UNCHANGED <<rpc, first_tool_complete, log_done, search_reminder_shown,
                   time_tracker_task, elapsed, logged, reminded, verdict,
                   rerun>>
    /\ UNCHANGED <<searchvars, fmtvars, toolvars>>

\* A tool_call_output_item event.
ToolOutput ==
    /\ rpc = "streaming"
    /\ \E event \in OutputEvents :
          \E det \in {DetectTool(event, last_tool_seen, tool_call_history)} :
             \E tool_name \in
                   {IF first_tool_complete /\ create_query_seen /\ ~search_seen
                    THEN TS ELSE det.name} :
                /\ last_tool_seen' = det.last
                /\ first_tool_complete' = TRUE
                /\ IF \/ tool_name = CQ
                      \/ /\ ~search_seen
                         /\ event.output.text = "queries"
                   THEN /\ create_query_seen' =
                              (\/ create_query_seen
                               \/ /\ event.output.text # "falsy"
                                  /\ event.output.parses)
                        /\ UNCHANGED <<search_seen, tool_call_history>>
                   ELSE IF \/ tool_name = TS
                           \/ event.output.text \in {"results", "both"}
                           \/ create_query_seen
                   THEN IF event.output.parses
                        THEN /\ search_seen' = TRUE
                             /\ tool_call_history' =
                                   IF TS \notin Range(tool_call_history)
                                   THEN Append(tool_call_history, TS)
                                   ELSE tool_call_history
                             /\ UNCHANGED create_query_seen
                        ELSE UNCHANGED <<create_query_seen, search_seen,
                                         tool_call_history>>
                   ELSE UNCHANGED <<create_query_seen, search_seen,
                                    tool_call_history>>
    /\ UNCHANGED <<rpc, tool_usage_count, log_done, search_reminder_shown,
                   time_tracker_task, elapsed, logged, reminded, verdict,
                   rerun>>
    /\ UNCHANGED <<searchvars, fmtvars, toolvars>>

\* The stream ends: the tracker is cancelled, the streaming result returned.
StreamEnds ==
    /\ rpc = "streaming"
    /\ time_tracker_task' = "cancelled"
    /\ rpc' = "returned"
    /\ UNCHANGED <<tool_call_history, last_tool_seen, tool_usage_count,
                   create_query_seen, search_seen, first_tool_complete,
                   log_done, search_reminder_shown, elapsed, logged, reminded,
                   verdict, rerun>>
    /\ UNCHANGED <<searchvars, fmtvars, toolvars>>

\* The except clause as it would be without its cancel.
StreamRaisesKeepsTracker ==
    /\ rpc = "streaming"
    /\ rpc' = "failed"
    /\ UNCHANGED <<tool_call_history, last_tool_seen, tool_usage_count,
                   create_query_seen, search_seen, first_tool_complete,
                   log_done, search_reminder_shown, time_tracker_task,
                   elapsed, logged, reminded, verdict, rerun>>
    /\ UNCHANGED <<searchvars, fmtvars, toolvars>>

\* The stream, or the handling of an event before it changes anything,
\* raises an Exception: the tracker is cancelled, None returned.
StreamRaises ==
    /\ rpc = "streaming"
    /\ time_tracker_task' = "cancelled"
    /\ rpc' = "failed"
    /\ UNCHANGED <<tool_call_history, last_tool_seen, tool_usage_count,
                   create_query_seen, search_seen, first_tool_complete,
                   log_done, search_reminder_shown, elapsed, logged, reminded,
                   verdict, rerun>>
    /\ UNCHANGED <<searchvars, fmtvars, toolvars>>

\* main, after run_with_progress returned a result: the tool usage report.
Report ==
    /\ rpc = "returned"
    /\ rpc' = "reported"
    /\ verdict' = UsageVerdict(tool_call_history, tool_usage_count)
    /\ UNCHANGED <<tool_call_history, last_tool_seen, tool_usage_count,
                   create_query_seen, search_seen, first_tool_complete,
                   log_done, search_reminder_shown, time_tracker_task,
                   elapsed, logged, reminded, rerun>>
    /\ UNCHANGED <<searchvars, fmtvars, toolvars>>

RunInit ==
    /\ input = <<>>
    /\ Idle
    /\ search_result = NoResponse
    /\ query_results = Pending
    /\ NotCreated
    /\ RunIdle

RunNext ==
    \/ RunStart
    \/ TrackerRuns
    \/ SkipEvent
    \/ ToolCall
    \/ ToolOutput
    \/ StreamEnds
    \/ StreamRaises
    \/ Report

RunSpec == RunInit /\ [][RunNext]_vars

\* ------------------------------------------------------------- claims
Dispatched == 1..Len(queries)

Holders == {i \in Positions : holds[i]}

\* C1: at every moment at most 5 provider calls are in flight, and a step
\* that starts a provider call is taken by a task that holds a permit of the
\* semaphore before and after the step.
C1_BoundedInFlight ==
    /\ [](Cardinality(inflight) <= SemaphoreInit)
    /\ [](Cardinality(Holders) + semaphore = IF pc = "start" THEN 0
                                             ELSE SemaphoreInit)
    /\ [][\A i \in Positions :
            Len(calls'[i]) > Len(calls[i]) => holds[i] /\ holds'[i]]_vars

\* Three calls in flight, one of them the still running thread of a task
\* that timed out and gave its permit back.
C1_Witness ==
    /\ Cardinality(inflight) = MaxQueries
    /\ \E i \in inflight : ~holds[i]
    /\ \E i \in inflight : holds[i]

\* The results of flattened that came from the call of position i.
FromPosition(results, i) == SelectSeq(results, LAMBDA r : r.src[1] = i)

\* C2: a provider call that raises ends its task with the empty list and
\* nothing raised; the step in which it does leaves every sibling task as it
\* was and the batch in its gather; and at the return the flattened sequence
\* holds exactly the results each sibling that succeeded returned.
C2_ErrorIsolated ==
    /\ [](\A i \in Positions :
            outcome[i] = "provider_error" =>
               /\ tpc[i] = "done"
               /\ slot[i] = <<>>
               /\ pc # "raised")
    /\ [][\A i \in Positions :
            (outcome[i] = "none" /\ outcome'[i] = "provider_error") =>
               /\ pc' = pc
               /\ \A j \in Positions \ {i} :
                     /\ tpc'[j] = tpc[j]
                     /\ slot'[j] = slot[j]
                     /\ outcome'[j] = outcome[j]
                     /\ calls'[j] = calls[j]
                     /\ (j \in inflight) = (j \in inflight')]_vars
    /\ [](pc = "done" =>
            \A j \in Dispatched :
               /\ tpc[j] = "done"
               /\ outcome[j] = "completed" =>
                     FromPosition(flattened, j) = slot[j])

\* The batch returned; one call raised while a sibling was in flight, and
\* that sibling went on to succeed with results.
C2_Witness ==
    /\ pc = "done"
    /\ \E i, j \in Dispatched :
          /\ outcome[i] = "provider_error"
          /\ outcome[j] = "completed"
          /\ slot[j] # <<>>
          /\ \E m, n \in 1..Len(settled) :
                m < n /\ settled[m] = i /\ settled[n] = j
          /\ FromPosition(all_results, j) # <<>>

\* C3: a call that timed out leaves the empty list for its query, was the
\* only provider call made for that query, and raised nothing past
\* target_search.
C3_TimeoutYieldsEmpty ==
    \A i \in Positions :
       outcome[i] = "timed_out" =>
          /\ tpc[i] = "done"
          /\ slot[i] = <<>>
          /\ calls[i] = <<queries[i]>>
          /\ pc # "raised"
          /\ pc = "done" => /\ results_per_query[i] = <<>>
                            /\ FromPosition(flattened, i) = <<>>

\* The batch returned after one of its calls timed out.
C3_Witness ==
    /\ pc = "done"
    /\ \E i \in Dispatched : outcome[i] = "timed_out"
    /\ all_results # <<>>

\* C4: a task that ended, on whichever path, released its permit exactly
\* once and does not hold it; no task releases more than once; and when the
\* batch has finished the semaphore is back at 5.
C4_PermitReleased ==
    /\ \A i \in Positions :
          /\ releases[i] <= 1
          /\ tpc[i] \in {"done", "raised"} => releases[i] = 1 /\ ~holds[i]
          /\ tpc[i] \in {"acquired", "calling"} => releases[i] = 0 /\ holds[i]
    /\ semaphore <= SemaphoreInit
    /\ pc \in {"done", "raised"} => semaphore = SemaphoreInit

\* The batch finished with a timeout, a provider error and a formatting
\* error among its three tasks.
C4_Witness ==
    /\ pc = "done"
    /\ \E i, j, k \in Dispatched :
          /\ outcome[i] = "timed_out"
          /\ outcome[j] = "provider_error"
          /\ outcome[k] = "format_error"
    /\ semaphore = SemaphoreInit

\* A step in which target_search, having returned, is called again.
NewInvocation == pc = "done" /\ pc' = "gather"

\* A step, within an invocation, in which the thread of a timed-out call
\* ends.
LateStep(i) ==
    /\ ~NewInvocation
    /\ outcome[i] = "timed_out"
    /\ i \in inflight
    /\ i \notin inflight'

\* C5: the late end of a timed-out call's thread changes nothing but the set
\* of running threads; the list recorded for a timed-out query stays empty
\* from the timeout on; and the returned list holds no result of a timed-out
\* query.
C5_LateResultDiscarded ==
    /\ [][\A i \in Positions :
            LateStep(i) =>
               UNCHANGED <<input, pc, queries, semaphore, tpc, outcome, holds,
                           calls, releases, slot, settled, results_by_query,
                           results_per_query, flattened, all_results, notes,
                           summary, report, earlier>>]_vars
    /\ [][\A i \in Positions :
            (outcome[i] = "timed_out" /\ ~NewInvocation) =>
               /\ slot[i] = <<>>
               /\ slot'[i] = <<>>
               /\ outcome'[i] = "timed_out"]_vars
    /\ [](pc = "done" =>
            \A k \in 1..Len(all_results) :
               /\ all_results[k].src[1] \in Dispatched
               /\ outcome[all_results[k].src[1]] = "completed")

\* One of two queries timed out and its thread has ended since;
\* target_search returned the results of the surviving query.
C5_Witness ==
    /\ pc = "done"
    /\ Len(queries) = 2
    /\ \E i, j \in Dispatched :
          /\ outcome[i] = "timed_out"
          /\ i \notin inflight
          /\ outcome[j] = "completed"
          /\ all_results = SortDesc(slot[j])
          /\ all_results # <<>>

\* C6: whatever the outcomes of the calls, no task and no gather raises, and
\* what target_search returns is the capped, sorted flattening of the lists
\* of its tasks, each of which ended in one of the four ways.
C6_NoFailurePropagates ==
    /\ pc # "raised"
    /\ \A i \in Positions : tpc[i] # "raised"
    /\ pc = "done" =>
          /\ \A i \in Dispatched :
                outcome[i] \in {"completed", "timed_out", "provider_error",
                                "format_error"}
          /\ Len(all_results) = IF Len(flattened) > MaxKept THEN MaxKept
                                ELSE Len(flattened)
          /\ \A i \in Dispatched :
                Len(FromPosition(flattened, i)) = Len(slot[i])

\* target_search returned after a success, a timeout and a malformed
\* response.
C6_Witness ==
    /\ pc = "done"
    /\ \E i, j, k \in Dispatched :
          /\ outcome[i] = "completed"
          /\ outcome[j] = "timed_out"
          /\ outcome[k] = "format_error"
    /\ all_results # <<>>

\* C7: every invocation returns, and once dispatched every query task ends
\* as completed, timed out or failed.
C7_EventuallyReturns ==
    <>(/\ pc = "done"
       /\ \A i \in Dispatched :
             /\ tpc[i] = "done"
             /\ outcome[i] \in {"completed", "timed_out", "provider_error",
                                "format_error"})

\* target_search has returned although the provider thread of one query
\* never ended.
C7_Witness ==
    /\ pc = "done"
    /\ \E i \in Dispatched : outcome[i] = "timed_out" /\ i \in inflight

\* C8: for an input of at most 3 queries, no query is ever called twice and
\* none but its own string is passed for it, and at the return exactly one
\* provider call was made for each input position.
C8_OneCallPerQuery ==
    Len(input) <= MaxQueries =>
       /\ \A i \in Positions :
             /\ Len(calls[i]) <= 1
             /\ calls[i] # <<>> => i <= Len(input) /\ calls[i] = <<input[i]>>
       /\ pc = "done" => \A i \in 1..Len(input) : calls[i] = <<input[i]>>

\* Three queries, all called, the batch returned.
C8_Witness ==
    /\ Len(input) = MaxQueries
    /\ pc = "done"
    /\ \A i \in 1..MaxQueries : Len(calls[i]) = 1

\* C9: for an input of more than 3 queries, the dispatched queries are the
\* first 3 of the input in input order, no provider call is ever made for
\* position 4 or later, and at the return each of the first 3 was called
\* once.
C9_OnlyFirstThree ==
    Len(input) > MaxQueries =>
       /\ pc # "start" => queries = SubSeq(input, 1, MaxQueries)
       /\ \A i \in Positions :
             /\ i > MaxQueries => calls[i] = <<>> /\ tpc[i] = "none"
             /\ Len(calls[i]) <= 1
             /\ calls[i] # <<>> => calls[i] = <<input[i]>>
       /\ pc = "done" => \A i \in 1..MaxQueries : calls[i] = <<input[i]>>

\* A longer input whose fourth query differs from the first three, the
\* batch returned.
C9_Witness ==
    /\ Len(input) > MaxQueries
    /\ \A i \in 1..MaxQueries : input[MaxQueries + 1] # input[i]
    /\ pc = "done"
    /\ \A i \in 1..MaxQueries : Len(calls[i]) = 1

\* C10: what the gather returned has one entry per dispatched query, in
\* input position order: entry i is the list task i returned, holds only
\* results of the call made for position i, and is empty for a query that
\* timed out or failed.
C10_PerQueryOrder ==
    pc = "done" =>
       /\ Len(results_per_query) = Len(queries)
       /\ \A i \in Dispatched :
             /\ results_per_query[i] = slot[i]
             /\ \A k \in 1..Len(results_per_query[i]) :
                   results_per_query[i][k].src = <<i, k>>
             /\ outcome[i] # "completed" => results_per_query[i] = <<>>

\* The calls ended in an order other than the input order, one of them by
\* timeout, and the gather returned non-empty lists for the others.
C10_Witness ==
    /\ pc = "done"
    /\ settled = <<3, 1, 2>>
    /\ outcome[2] = "timed_out"
    /\ results_per_query[1] # <<>>
    /\ results_per_query[3] # <<>>
    /\ results_per_query[1] # results_per_query[3]

\* The index in the flattened sequence of a result (the tags of the results
\* of one invocation are all different).
FlatIndex(r) == CHOOSE n \in 1..Len(flattened) : flattened[n].src = r.src

\* src1 is before src2 in position order, then provider order.
SrcBefore(src1, src2) ==
    \/ src1[1] < src2[1]
    \/ src1[1] = src2[1] /\ src1[2] < src2[2]

\* C11: the returned list is sorted by score, highest first, and two entries
\* of equal score are in the order they had in the flattened sequence, which
\* is the order of the query positions and, within a query, of the provider.
C11_SortedStable ==
    pc = "done" =>
       /\ \A m, n \in 1..Len(flattened) :
             m < n => SrcBefore(flattened[m].src, flattened[n].src)
       /\ \A p, q \in 1..Len(all_results) :
             p < q =>
                /\ all_results[p].score >= all_results[q].score
                /\ all_results[p].score = all_results[q].score =>
                      /\ FlatIndex(all_results[p]) < FlatIndex(all_results[q])
                      /\ SrcBefore(all_results[p].src, all_results[q].src)

\* Results of two queries are returned, with two of equal score from
\* different queries and a first result that was not first in the flattened
\* sequence.
C11_Witness ==
    /\ pc = "done"
    /\ Len(all_results) >= 2
    /\ all_results[1].src # flattened[1].src
    /\ \E p, q \in 1..Len(all_results) :
          /\ p < q
          /\ all_results[p].score = all_results[q].score
          /\ all_results[p].src[1] < all_results[q].src[1]
    /\ \E p, q \in 1..Len(all_results) :
          /\ p < q
          /\ all_results[p].score > all_results[q].score
          /\ all_results[p].src[1] > all_results[q].src[1]

Returned == {all_results[p].src : p \in 1..Len(all_results)}

Discarded == {n \in 1..Len(flattened) : flattened[n].src \notin Returned}

\* C12: every returned entry is an entry of the flattened sequence and none
\* is returned twice; with 8 results or fewer all are returned; with more,
\* exactly 8 are, and a discarded result has no higher score than any kept
\* one and, at equal score, came later in the flattened sequence.
C12_FirstEight ==
    pc = "done" =>
       /\ \A p \in 1..Len(all_results) :
             \E n \in 1..Len(flattened) : flattened[n] = all_results[p]
       /\ Cardinality(Returned) = Len(all_results)
       /\ Len(flattened) <= MaxKept => Len(all_results) = Len(flattened)
       /\ Len(flattened) > MaxKept =>
             /\ Len(all_results) = MaxKept
             /\ \A n \in Discarded : \A p \in 1..Len(all_results) :
                   /\ flattened[n].score <= all_results[p].score
                   /\ flattened[n].score = all_results[p].score =>
                         FlatIndex(all_results[p]) < n

\* Eleven results of three queries: three are discarded, one of them with
\* the score of a kept one.
C12_Witness ==
    /\ pc = "done"
    /\ Len(flattened) = 11
    /\ Cardinality(Discarded) = 3
    /\ \E n \in Discarded : \E p \in 1..Len(all_results) :
          flattened[n].score = all_results[p].score

\* C13: the returned list has at most 8 entries.
C13_AtMostEight ==
    pc = "done" => Len(all_results) <= MaxKept

\* Three queries with five results each: fifteen found, eight returned.
C13_Witness ==
    /\ pc = "done"
    /\ Len(flattened) = 15
    /\ Len(all_results) = MaxKept

\* The raw hits of the response under formatting.
RawHits == RawResultsOf(search_result)

\* The provider's content of raw hit k ("" when the key is missing).
RawContent(k) ==
    IF "content" \in RawHits[k].keys THEN RawHits[k].content ELSE <<>>

\* C14: the content of every formatted result has at most 203 characters
\* (200 and the marker of 3); a provider content of 200 characters or fewer
\* is passed through as it is; a longer one becomes its first 200
\* characters followed by the marker once.
C14_ContentTruncated ==
    query_results.state = "formatted" =>
       /\ Len(Marker) = 3
       /\ \A k \in 1..Len(query_results.results) :
             /\ Len(query_results.results[k].content) <= TruncLen + 3
             /\ Len(RawContent(k)) <= TruncLen =>
                   query_results.results[k].content = RawContent(k)
             /\ Len(RawContent(k)) > TruncLen =>
                   /\ Len(query_results.results[k].content) = TruncLen + 3
                   /\ \A j \in 1..TruncLen :
                         query_results.results[k].content[j] = RawContent(k)[j]
                   /\ \A j \in 1..3 :
                         query_results.results[k].content[TruncLen + j] = "."

\* A response was formatted whose first content has exactly 200 characters
\* and whose second has more than 203.
C14_Witness ==
    /\ query_results.state = "formatted"
    /\ Len(query_results.results) = 2
    /\ Len(RawContent(1)) = TruncLen
    /\ Len(RawContent(2)) > TruncLen + 3
    /\ Len(query_results.results[1].content) = TruncLen
    /\ Len(query_results.results[2].content) = TruncLen + 3

\* The response under formatting is a dict none of whose hits holds None.
NothingNull ==
    /\ search_result.isDict
    /\ \A k \in 1..Len(RawHits) : RawHits[k].nulls \cap RawHits[k].keys = {}

\* C16: the formatting of a response that lacks fields, and holds no None,
\* does not raise; a missing results list gives the empty list; every raw
\* hit gives one result, in order, with each missing field replaced by the
\* empty string or by score 0 and each present field kept.
C16_MissingFieldsDefaulted ==
    /\ NothingNull => query_results.state # "raised"
    /\ query_results.state = "formatted" =>
          /\ ~search_result.hasResults => query_results.results = <<>>
          /\ Len(query_results.results) = Len(RawHits)
          /\ \A k \in 1..Len(RawHits) :
                LET raw == RawHits[k]
                    out == query_results.results[k]
                IN  /\ out.src = raw.src
                    /\ out.title = IF "title" \in raw.keys THEN raw.title
                                   ELSE ""
                    /\ out.url = IF "url" \in raw.keys THEN raw.url ELSE ""
                    /\ out.score = IF "score" \in raw.keys THEN raw.score
                                   ELSE 0
                    /\ "content" \notin raw.keys => out.content = <<>>

\* A response was formatted whose first hit holds no key at all and whose
\* second hit is complete: both results are there.
C16_Witness ==
    /\ query_results.state = "formatted"
    /\ Len(RawHits) = 2
    /\ RawHits[1].keys = {}
    /\ RawHits[2].keys = ResultKeys
    /\ Len(query_results.results) = 2
    /\ query_results.results[1].score = 0
    /\ query_results.results[2].title = "t"

\* C15: the query tasks write no shared state but the semaphore: what a task
\* recorded when it ended is in a slot of its own, so that every ended task's
\* record is still there with the list that task recorded, also when two
\* dispatched queries are the same string.
C15_PrivateSlots ==
    /\ Len(results_by_query) = Len(settled)
    /\ \A i \in Dispatched :
          tpc[i] = "done" =>
             \E n \in 1..Len(results_by_query) :
                /\ results_by_query[n].key = queries[i]
                /\ results_by_query[n].value = slot[i]

\* The terminal notification that goes with the way a call ended.
NoteOf(how) ==
    CASE how = "completed" -> "completed"
      [] how = "timed_out" -> "timed_out"
      [] how \in {"provider_error", "format_error"} -> "failed"
      [] OTHER -> "none"

\* C17: for every dispatched query the report holds nothing before its task
\* ran, the start notification alone while the task is under way, and once
\* the task has ended the start notification followed by exactly one
\* terminal notification, the one of the way its call ended; a query not
\* dispatched is not reported; the summary is printed once, at the return,
\* and only when every dispatched query has its terminal notification.
C17_ProgressReport ==
    /\ \A i \in Positions \ Dispatched : notes[i] = <<>>
    /\ \A i \in Dispatched :
          /\ tpc[i] = "created" => notes[i] = <<>>
          /\ tpc[i] \in {"waiting", "acquired", "calling"} =>
                notes[i] = <<"started">>
          /\ tpc[i] \in {"done", "raised"} =>
                notes[i] = <<"started", NoteOf(outcome[i])>>
    /\ Len(summary) <= 1
    /\ summary # <<>> =>
          \A i \in Dispatched :
             /\ Len(notes[i]) = 2
             /\ notes[i][2] \in {"completed", "timed_out", "failed"}
    /\ pc = "done" <=> Len(summary) = 1

C17_Witness ==
    /\ pc = "done"
    /\ Len(queries) = 3
    /\ notes[1] = <<"started", "completed">>
    /\ notes[2] = <<"started", "timed_out">>
    /\ notes[3] = <<"started", "failed">>
    /\ Len(summary) = 1

\* C18: once the batch is over, if every dispatched query gave zero results
\* (its call returned none, timed out or failed), target_search has returned,
\* not raised, and what it returned is the empty sequence.
C18_AllEmpty ==
    (/\ pc \in {"done", "raised"}
     /\ \A i \in Dispatched : slot[i] = <<>>)
       => /\ pc = "done"
          /\ all_results = <<>>
          /\ \A i \in Dispatched : tpc[i] = "done"

C18_Witness ==
    /\ pc = "done"
    /\ Len(queries) = 3
    /\ outcome[1] = "completed"
    /\ outcome[2] = "timed_out"
    /\ outcome[3] = "provider_error"
    /\ \A i \in Dispatched : slot[i] = <<>>
    /\ all_results = <<>>

C20_Summary ==
    pc = "done" =>
       /\ Len(summary) = 1
       /\ summary[1].queries_processed = Len(queries)
       /\ summary[1].queries_processed =
             (IF Len(input) < MaxQueries THEN Len(input) ELSE MaxQueries)
       /\ summary[1].total_results_found = Len(flattened)
       /\ summary[1].results_kept = Len(all_results)
       /\ summary[1].results_kept =
             (IF summary[1].total_results_found < MaxKept
              THEN summary[1].total_results_found ELSE MaxKept)

C20_Witness ==
    /\ pc = "done"
    /\ Len(input) = MaxInput
    /\ summary = <<[queries_processed |-> MaxQueries,
                    total_results_found |-> 13,
                    results_kept |-> MaxKept]>>

\* C22: the results-by-query report printed at the return has exactly one
\* entry per dispatched query, and for every dispatched query an entry with
\* that query and, as the number found, the length of the list the query's
\* task contributed to the flattened sequence, also when two dispatched
\* queries are the same string.
C22_ReportPerQuery ==
    pc = "done" =>
       /\ Len(report) = Len(queries)
       /\ \A i \in Dispatched :
             \E n \in 1..Len(report) :
                /\ report[n].query = queries[i]
                /\ report[n].found = Len(slot[i])

\* C23: every output of create_query is its argument when that has at most
\* 3 queries, and the argument's first 3 queries in order otherwise; the
\* output of a second call on the first call's output is the first call's
\* output; and target_search called with an output of create_query
\* dispatches every query of it.
C23_CreateQuery ==
    /\ \A n \in 1..Len(created) :
          \E arg \in {IF n = 1 THEN generated ELSE created[n - 1]} :
             /\ Len(arg) <= 3 => created[n] = arg
             /\ Len(arg) > 3 => created[n] = <<arg[1], arg[2], arg[3]>>
    /\ Len(created) >= 2 => created[2] = created[1]
    /\ (pc = "gather" /\ created # <<>>) =>
          /\ input = created[Len(created)]
          /\ queries = input

C23_Witness ==
    /\ Len(generated) = MaxInput
    /\ Len(created) = 2
    /\ Len(created[1]) = 3
    /\ pc = "gather"
    /\ Len(queries) = 3

\* C21: whenever main has reported perfect tool usage, both usage counts of
\* the run are 1: each of the two tools was called exactly once.
C21_PerfectMeansOnce ==
    verdict = "perfect" => tool_usage_count = [t \in ToolNames |-> 1]

\* A step in which run_with_progress is called.
NewRun == rpc # "streaming" /\ rpc' = "streaming"

\* C24: in every state tool_call_history is a sequence without duplicates
\* of at most 2 entries, each one of the two friendly tool names; and a call
\* of run_with_progress leaves it empty, whatever it held before.
C24_History ==
    /\ [](/\ Len(tool_call_history) <= 2
          /\ \A n \in 1..Len(tool_call_history) :
                tool_call_history[n] \in {"Create Search Queries",
                                          "Search based on queries"}
          /\ \A m, n \in 1..Len(tool_call_history) :
                m # n => tool_call_history[m] # tool_call_history[n])
    /\ [][NewRun => tool_call_history' = <<>>]_vars

C24_Witness ==
    /\ rerun
    /\ rpc = "streaming"
    /\ tool_call_history = <<TS, CQ>>
    /\ tool_usage_count[CQ] = 2
    /\ tool_usage_count[TS] = 2

\* C25: once run_with_progress has returned, with the streaming result or
\* with None, the time tracker task is cancelled, and from then on it prints
\* nothing; in a run every log interval's message and the search reminder
\* are printed at most once.
C25_Tracker ==
    /\ [](rpc \in {"returned", "failed", "reported"} =>
            time_tracker_task = "cancelled")
    /\ [](/\ \A i \in LogIntervals : logged[i] <= 1
          /\ reminded <= 1)
    /\ [][(time_tracker_task = "cancelled" /\ ~NewRun) =>
            logged' = logged /\ reminded' = reminded]_vars

C25_Witness ==
    /\ rpc = "failed"
    /\ time_tracker_task = "cancelled"
    /\ \A i \in LogIntervals : logged[i] = 1
    /\ reminded = 1

====
